---- MODULE Spec2Model ----
(***************************************************************************)
(* ImageTriangulation.py: the spatial grid (Grid), the blue-noise sampler  *)
(* in its two variants (BlueNoiseGenerator.generate / generateWeighted),   *)
(* the boundary walk (generateBoundary) and the per-triangle colour        *)
(* aggregation (calculateTriColors).                                       *)
(*                                                                         *)
(* Numbers.  Sampled points have integer coordinates.  The grid cell size  *)
(* minDist / sqrt(2) is irrational for an integer minDist, so             *)
(* int(v / cellSize) is computed exactly with integers: it is the largest  *)
(* k with (k * minDist)^2 <= 2 * v^2.  A Euclidean distance d compares     *)
(* with minDist as d^2 with minDist^2.  The boundary cursors are floats;   *)
(* they are kept as fixed-point numbers counted in units of 1 / FP, FP     *)
(* the denominator of the aspect ratio times the resolution at which       *)
(* random.uniform is sampled, and so is every coordinate stored in         *)
(* sampledList.  Means and medians are kept as fractions <<num, den>>.     *)
(***************************************************************************)
EXTENDS Integers, Sequences, FiniteSets, Bags

VARIABLES
    imageWidth,          \* BlueNoiseGenerator.imageWidth  (image.shape[1])
    imageHeight,         \* BlueNoiseGenerator.imageHeight (image.shape[0])
    minDist,             \* Grid.minDist = BlueNoiseGenerator.minDist = edgeThreshold
    pointCount,          \* BlueNoiseGenerator.pointCount
    newPointsToGenerate, \* BlueNoiseGenerator.newPointsToGenerate
    imageWeight,         \* BlueNoiseGenerator.imageWeight, [<<x, y>> -> weight]
    width,               \* Grid.width
    height,              \* Grid.height
    grid,                \* Grid.grid, [0 .. width*height-1 -> Point or None]
    sampledList,         \* BlueNoiseGenerator.sampledList, fixed-point <<x, y>>
    processingList,      \* BlueNoiseGenerator.processingList, Points
    pQueue,              \* the PriorityQueue of generateWeighted, a bag of Points
    randomPoint,         \* the Point popped from processingList
    i,                   \* the candidate loop's counter
    upperWidth, lowerWidth, leftHeight, rightHeight, \* generateBoundary's cursors
    variant,             \* which entry point runs: "generate" / "generateWeighted"
    pc,                  \* the position in the running entry point
    uniformSteps,        \* random.uniform is sampled at uniformSteps + 1 points
    result,              \* what the caller's last Grid.checkInNeighborhood returned
    query,               \* the Point that call was given (None: no call since)
    inserted,            \* the Points given to Grid.insert since the last reset
    cleared,             \* the Points given to Grid.insert before the last reset
    image,               \* calculateTriColors: the pixels, Seq of <<r, g, b>>
    pixeltoTriangle,     \* calculateTriColors: find_simplex per pixel (-1: none)
    triangleCount,       \* calculateTriColors: triangulation.simplices.shape[0]
    aggregateFunc,       \* calculateTriColors: "mean" / "median"
    triangleColors       \* calculateTriColors: the returned rows, or None

vars == <<imageWidth, imageHeight, minDist, pointCount, newPointsToGenerate,
          imageWeight, width, height, grid, sampledList, processingList, pQueue, randomPoint,
          i, upperWidth, lowerWidth, leftHeight, rightHeight, variant, pc,
          uniformSteps, result, query, inserted, cleared, image, pixeltoTriangle, triangleCount,
          aggregateFunc, triangleColors>>

paramVars == <<imageWidth, imageHeight, minDist, pointCount,
               newPointsToGenerate, imageWeight, variant, uniformSteps,
               width, height>>
cursorVars == <<upperWidth, lowerWidth, leftHeight, rightHeight>>
gridOpVars == <<result, query, inserted, cleared>>
colorVars == <<image, pixeltoTriangle, triangleCount, aggregateFunc,
               triangleColors>>

(***************************************************************************)
(* Bounds of the model.                                                    *)
(***************************************************************************)
MaxCandidates == 2
MaxTarget == 2
MaxDist == 2
MaxInserts == 2
MaxUniformSteps == 2
MaxPixels == 3
MaxTriangles == 2

None == <<>>

Abs(n) == IF n < 0 THEN -n ELSE n
Min(a, b) == IF a < b THEN a ELSE b
Max(a, b) == IF a < b THEN b ELSE a

RECURSIVE Gcd(_, _)
Gcd(a, b) == IF b = 0 THEN a ELSE Gcd(b, a % b)

(***************************************************************************)
(* class Point                                                             *)
(***************************************************************************)
Point(x, y, priority) == [x |-> x, y |-> y, priority |-> priority]

\* Point.distance, squared: sqrt(n) < m iff n < m^2 for integers n, m >= 0.
distanceSq(p, q) == (q.x - p.x) * (q.x - p.x) + (q.y - p.y) * (q.y - p.y)

\* Point.__lt__
PointLt(p, q) == p.priority < q.priority

\* Point.generateRandomPointAround: the offsets <<int(radius * cos(angle)),
\* int(radius * sin(angle))>> over radius in [m, 2m) and every angle.  int()
\* truncates toward zero, so the offset d comes from a real of magnitude in
\* [|d|, |d| + 1): the box of reals truncating to <<dx, dy>> meets the annulus
\* iff its least norm is below 2m and its (unattained) greatest norm above m.
Offsets(m) ==
    {d \in (-(2 * m) .. 2 * m) \X (-(2 * m) .. 2 * m) :
        /\ d[1] * d[1] + d[2] * d[2] < 4 * m * m
        /\ (Abs(d[1]) + 1) * (Abs(d[1]) + 1)
             + (Abs(d[2]) + 1) * (Abs(d[2]) + 1) > m * m}

generateRandomPointAround(p, m) ==
    {Point(p.x + d[1], p.y + d[2], 0) : d \in Offsets(m)}

(***************************************************************************)
(* class Grid                                                              *)
(***************************************************************************)
\* int(v / cellSize), cellSize = m / sqrt(2), for v >= 0
CellOf(v, m) ==
    CHOOSE k \in 0 .. (2 * v) \div m :
        /\ k * k * m * m <= 2 * v * v
        /\ (k + 1) * (k + 1) * m * m > 2 * v * v

\* int(v / cellSize): int() truncates toward zero, and a negative minDist
\* makes cellSize negative
IntDiv(v, m) ==
    LET k == CellOf(Abs(v), Abs(m))
    IN  IF (v < 0) = (m < 0) THEN k ELSE -k

\* Grid.__init__: math.ceil(side / cellSize), side >= 0; the quotient is no
\* integer unless side = 0, and is negative when minDist is
GridSide(side, m) ==
    IF side = 0 THEN 0
    ELSE IF m > 0 THEN CellOf(side, m) + 1
    ELSE -CellOf(side, -m)

\* [None] * n
Nones(n) == [c \in 0 .. n - 1 |-> None]

\* len(self.grid)
GridLen(g) == Cardinality(DOMAIN g)

\* Grid.__init__, lines 58-63 (cellSize is minDist / sqrt(2) throughout).
\* [None] * width * height is ([None] * width) * height, and a list times a
\* number <= 0 is the empty list
GridInit ==
    /\ width = GridSide(imageWidth, minDist)
    /\ height = GridSide(imageHeight, minDist)
    /\ grid = Nones(IF width > 0 /\ height > 0 THEN width * height ELSE 0)

getGridCoordinates(p) == Point(IntDiv(p.x, minDist), IntDiv(p.y, minDist), 0)

\* Grid.getGridIndex with gridSpace = True
GridIndexOfCell(x, y) == y * width + x

\* Grid.getGridIndex with gridSpace = False
getGridIndex(p) ==
    LET g == getGridCoordinates(p) IN GridIndexOfCell(g.x, g.y)

\* the list assignment of Grid.insert raises IndexError for an index outside
\* -len .. len - 1
IndexError(g, index) == index \notin -GridLen(g) .. GridLen(g) - 1

\* Grid.insert: the list assignment, where it does not raise; a negative
\* index counts from the end of the list
insert(g, p) ==
    LET index == getGridIndex(p)
    IN  [g EXCEPT ![IF index < 0 THEN index + GridLen(g) ELSE index] = p]

\* the window with a radius of 1
WindowRangeOne(c) == (c - 1) .. c

\* the window without the cell of the point itself
WindowRangeBelow(c) == (c - 2) .. (c - 1)

\* range(c - radius, c + radius) of Grid.checkInNeighborhood
WindowRange(c) == (c - 2) .. (c + 1)

\* a lookup that takes any occupied cell of the window for a neighbour
checkInNeighborhoodOccupied(g, p) ==
    LET gc == getGridCoordinates(p) IN
    \E y \in WindowRange(gc.y) : \E x \in WindowRange(gc.x) :
        LET index == GridIndexOfCell(x, y) IN
        /\ index \in DOMAIN g
        /\ g[index] # None

\* Grid.checkInNeighborhood; `index in range(0, len(self.grid))` skips the
\* cells whose flat index falls outside the list
checkInNeighborhood(g, p) ==
    LET gc == getGridCoordinates(p) IN
    \E y \in WindowRange(gc.y) : \E x \in WindowRange(gc.x) :
        LET index == GridIndexOfCell(x, y) IN
        /\ index \in DOMAIN g
        /\ g[index] # None
        /\ distanceSq(p, g[index]) < minDist * minDist

\* a reset that rebinds nothing
resetKeeps(g) == g

\* Grid.reset
reset(g) == Nones(GridLen(g))

(***************************************************************************)
(* Fixed point: FP units make 1.  aspectRatio (lines 119-120) is           *)
(* AspectNum / AspectDen in lowest terms.                                  *)
(***************************************************************************)
AspectDen == Min(imageWidth, imageHeight) \div Gcd(imageWidth, imageHeight)
AspectNum == Max(imageWidth, imageHeight) \div Gcd(imageWidth, imageHeight)
FP == AspectDen * uniformSteps

\* list(point), as stored in sampledList
ToList(p) == <<p.x * FP, p.y * FP>>

(***************************************************************************)
(* BlueNoiseGenerator.generateBoundary                                     *)
(***************************************************************************)
\* random.uniform(lo, hi) = lo + (hi - lo) * random(), sampled at
\* uniformSteps + 1 evenly spaced points of [lo, hi]; lo and hi are multiples
\* of uniformSteps
Uniform(lo, hi) ==
    {lo + k * ((hi - lo) \div uniformSteps) : k \in 0 .. uniformSteps}

\* minDist and twiceMinDist, times aspectRatio or not, in fixed point
Scaled(byAspect) ==
    IF byAspect THEN minDist * AspectNum * uniformSteps ELSE minDist * FP

\* the while condition with "or" for "and"
BoundaryConditionAny ==
    \/ lowerWidth < imageWidth * FP
    \/ upperWidth < imageWidth * FP
    \/ leftHeight < imageHeight * FP
    \/ rightHeight < imageHeight * FP

\* the while condition, lines 121-122
BoundaryCondition ==
    /\ lowerWidth < imageWidth * FP
    /\ upperWidth < imageWidth * FP
    /\ leftHeight < imageHeight * FP
    /\ rightHeight < imageHeight * FP

\* the bounds of upperDelta and lowerDelta, lines 127-132
WidthDeltas ==
    LET lo == Scaled(imageWidth > imageHeight) IN Uniform(lo, 2 * lo)

\* the bounds of leftDelta and rightDelta, lines 133-138
HeightDeltas ==
    LET lo == Scaled(imageHeight > imageWidth) IN Uniform(lo, 2 * lo)

\* the four points one iteration appends, lines 123-126
BoundaryPoints ==
    << <<upperWidth, 0>>,
       <<lowerWidth, (imageHeight - 1) * FP>>,
       <<0, leftHeight>>,
       <<(imageWidth - 1) * FP, rightHeight>> >>

\* the two corners of the left edge
CornersLeft == << <<0, 0>>, <<0, (imageHeight - 1) * FP>> >>

\* the two corners appended after the loop, lines 143-144
Corners ==
    << <<(imageWidth - 1) * FP, 0>>,
       <<(imageWidth - 1) * FP, (imageHeight - 1) * FP>> >>

\* one iteration of the while loop
generateBoundaryStep ==
    /\ pc = "boundary"
    /\ BoundaryCondition
    /\ sampledList' = sampledList \o BoundaryPoints
    /\ \E upperDelta \in WidthDeltas, lowerDelta \in WidthDeltas,
          leftDelta \in HeightDeltas, rightDelta \in HeightDeltas :
          /\ upperWidth' = upperWidth + upperDelta
          /\ lowerWidth' = lowerWidth + lowerDelta
          /\ leftHeight' = leftHeight + leftDelta
          /\ rightHeight' = rightHeight + rightDelta
    /\ UNCHANGED <<paramVars, grid, processingList, pQueue, randomPoint, i,
                   pc, gridOpVars, colorVars>>

\* the loop's exit, the corners, and the caller's return of sampledList
generateBoundaryReturn ==
    /\ pc = "boundary"
    /\ ~BoundaryCondition
    /\ sampledList' = sampledList \o Corners
    /\ pc' = "done"
    /\ UNCHANGED <<paramVars, grid, processingList, pQueue, randomPoint, i,
                   cursorVars, gridOpVars, colorVars>>

(***************************************************************************)
(* BlueNoiseGenerator.generate and generateWeighted                        *)
(***************************************************************************)
\* the while condition without the target count
LoopConditionNoCount == Len(processingList) > 0

\* the while condition, lines 172 and 210
LoopCondition ==
    Len(processingList) > 0 /\ Len(sampledList) < pointCount

\* the boundary check with the margin's border let in
InsideMarginLoose(p) ==
    /\ p.x >= minDist
    /\ p.x <= imageWidth - minDist
    /\ p.y >= minDist
    /\ p.y <= imageHeight - minDist

\* the early boundary check, lines 177-178 and 214-215 (edgeThreshold is
\* minDist, line 110; the local edgeThreshold of line 208 is never read)
InsideMargin(p) ==
    /\ p.x > minDist
    /\ p.x < imageWidth - minDist
    /\ p.y > minDist
    /\ p.y < imageHeight - minDist

\* a pop that returns the entry and leaves the list as it was
PopAtKeeps(s, k) == s

\* list.pop(k), 0-based
PopAt(s, k) == SubSeq(s, 1, k) \o SubSeq(s, k + 2, Len(s))

\* the seed: lines 164-168 and 203-206.  random.randint includes both ends.
Start(v) ==
    /\ pc = "start"
    /\ variant = v
    /\ \E x \in 0 .. imageWidth, y \in 0 .. imageHeight :
          LET startingPoint == Point(x, y, 0) IN
          /\ ~IndexError(grid, getGridIndex(startingPoint))
          /\ sampledList' = Append(sampledList, ToList(startingPoint))
          /\ processingList' = Append(processingList, startingPoint)
          /\ grid' = insert(grid, startingPoint)
          /\ inserted' = Append(inserted, startingPoint)
    /\ pc' = "loop"
    /\ UNCHANGED <<paramVars, pQueue, randomPoint, i, cursorVars, result,
                   query, cleared, colorVars>>

\* the seed where self.grid.insert(startingPoint) raises IndexError: the two
\* appends before it are done, and the exception ends the call
StartRaises(v) ==
    /\ pc = "start"
    /\ variant = v
    /\ \E x \in 0 .. imageWidth, y \in 0 .. imageHeight :
          LET startingPoint == Point(x, y, 0) IN
          /\ IndexError(grid, getGridIndex(startingPoint))
          /\ sampledList' = Append(sampledList, ToList(startingPoint))
          /\ processingList' = Append(processingList, startingPoint)
    /\ pc' = "raised"
    /\ UNCHANGED <<paramVars, grid, pQueue, randomPoint, i, cursorVars,
                   gridOpVars, colorVars>>

\* processingList.pop(random.randint(0, len - 1)), lines 173 and 211, and the
\* entry of the for loop; with no candidate to generate the for loop is over
Pop(v, after) ==
    /\ pc = "loop"
    /\ variant = v
    /\ LoopCondition
    /\ \E k \in 0 .. Len(processingList) - 1 :
          /\ randomPoint' = processingList[k + 1]
          /\ processingList' = PopAt(processingList, k)
    /\ i' = 0
    /\ pc' = IF newPointsToGenerate > 0 THEN "for" ELSE after
    /\ UNCHANGED <<paramVars, grid, sampledList, pQueue, cursorVars,
                   gridOpVars, colorVars>>

\* the while condition fails: generateBoundary is entered, lines 114-117
Exit(v) ==
    /\ pc = "loop"
    /\ variant = v
    /\ ~LoopCondition
    /\ upperWidth' = 0
    /\ lowerWidth' = 0
    /\ leftHeight' = 0
    /\ rightHeight' = 0
    /\ pc' = "boundary"
    /\ UNCHANGED <<paramVars, grid, sampledList, processingList, pQueue,
                   randomPoint, i, gridOpVars, colorVars>>

generateStart == Start("generate")
generateStartRaises == StartRaises("generate")
generatePop == Pop("generate", "loop")
generateExit == Exit("generate")

\* one iteration of the for loop of generate, lines 212-220
generateCandidate ==
    /\ pc = "for"
    /\ variant = "generate"
    /\ \E newPoint \in generateRandomPointAround(randomPoint, minDist) :
          IF InsideMargin(newPoint) /\ ~checkInNeighborhood(grid, newPoint)
          THEN /\ processingList' = Append(processingList, newPoint)
               /\ sampledList' = Append(sampledList, ToList(newPoint))
               /\ grid' = insert(grid, newPoint)
               /\ inserted' = Append(inserted, newPoint)
          ELSE UNCHANGED <<processingList, sampledList, grid, inserted>>
    /\ i' = i + 1
    /\ pc' = IF i + 1 < newPointsToGenerate THEN "for" ELSE "loop"
    /\ UNCHANGED <<paramVars, pQueue, randomPoint, cursorVars, result, query,
                   cleared, colorVars>>

generateWeightedStart == Start("generateWeighted")
generateWeightedStartRaises == StartRaises("generateWeighted")

\* the pop of an outer iteration that starts on a new queue
generateWeightedPopClears ==
    /\ pc = "loop"
    /\ variant = "generateWeighted"
    /\ LoopCondition
    /\ \E k \in 0 .. Len(processingList) - 1 :
          /\ randomPoint' = processingList[k + 1]
          /\ processingList' = PopAt(processingList, k)
    /\ i' = 0
    /\ pQueue' = EmptyBag
    /\ pc' = IF newPointsToGenerate > 0 THEN "for" ELSE "drain"
    /\ UNCHANGED <<paramVars, grid, sampledList, cursorVars, gridOpVars,
                   colorVars>>

generateWeightedPop == Pop("generateWeighted", "drain")
generateWeightedExit == Exit("generateWeighted")

\* one iteration of the for loop of generateWeighted, lines 174-180
generateWeightedCandidate ==
    /\ pc = "for"
    /\ variant = "generateWeighted"
    /\ \E newPoint \in generateRandomPointAround(randomPoint, minDist) :
          IF InsideMargin(newPoint)
          THEN pQueue' = pQueue (+) SetToBag(
                   {Point(newPoint.x, newPoint.y,
                          -imageWeight[<<newPoint.x, newPoint.y>>])})
          ELSE UNCHANGED pQueue
    /\ i' = i + 1
    /\ pc' = IF i + 1 < newPointsToGenerate THEN "for" ELSE "drain"
    /\ UNCHANGED <<paramVars, grid, sampledList, processingList, randomPoint,
                   cursorVars, gridOpVars, colorVars>>

\* a queue that hands out its entries in any order
QueueAny(q) == BagToSet(q)

\* PriorityQueue.get(): an entry no other entry is less than (Point.__lt__);
\* which of several equal ones comes first is the heap's business
QueueHeads(q) ==
    {p \in BagToSet(q) : \A other \in BagToSet(q) : ~PointLt(other, p)}

\* the drain loop without `found`: it goes on after an acceptance
generateWeightedDrainAll ==
    /\ pc = "drain"
    /\ variant = "generateWeighted"
    /\ pQueue # EmptyBag
    /\ \E newPoint \in QueueHeads(pQueue) :
          /\ pQueue' = pQueue (-) SetToBag({newPoint})
          /\ IF ~checkInNeighborhood(grid, newPoint)
             THEN /\ processingList' = Append(processingList, newPoint)
                  /\ sampledList' = Append(sampledList, ToList(newPoint))
                  /\ grid' = insert(grid, newPoint)
                  /\ inserted' = Append(inserted, newPoint)
             ELSE UNCHANGED <<processingList, sampledList, grid, inserted>>
    /\ UNCHANGED <<paramVars, randomPoint, i, cursorVars, result, query,
                   cleared, colorVars, pc>>

\* one iteration of the drain loop, lines 183-189 (found = True ends it)
generateWeightedDrain ==
    /\ pc = "drain"
    /\ variant = "generateWeighted"
    /\ pQueue # EmptyBag
    /\ \E newPoint \in QueueHeads(pQueue) :
          /\ pQueue' = pQueue (-) SetToBag({newPoint})
          /\ IF ~checkInNeighborhood(grid, newPoint)
             THEN /\ processingList' = Append(processingList, newPoint)
                  /\ sampledList' = Append(sampledList, ToList(newPoint))
                  /\ grid' = insert(grid, newPoint)
                  /\ inserted' = Append(inserted, newPoint)
                  /\ pc' = "loop"
             ELSE UNCHANGED <<processingList, sampledList, grid, inserted, pc>>
    /\ UNCHANGED <<paramVars, randomPoint, i, cursorVars, result, query,
                   cleared, colorVars>>

\* the drain loop ends on the empty queue, line 183
generateWeightedDrained ==
    /\ pc = "drain"
    /\ variant = "generateWeighted"
    /\ pQueue = EmptyBag
    /\ pc' = "loop"
    /\ UNCHANGED <<paramVars, grid, sampledList, processingList, pQueue,
                   randomPoint, i, cursorVars, gridOpVars, colorVars>>

(***************************************************************************)
(* The sampler's runs: a BlueNoiseGenerator freshly constructed on a reset *)
(* grid (lines 266-269), one entry point called once.                      *)
(***************************************************************************)
\* importance surfaces the weighted variant is run on
Surfaces(w, h) ==
    LET px == (0 .. w - 1) \X (0 .. h - 1) IN
    {[p \in px |-> 0], [p \in px |-> (p[1] + 2 * p[2]) % 3]}

IdleGridCaller ==
    /\ result = FALSE
    /\ query = None
    /\ cleared = {}

IdleColors ==
    /\ image = <<>>
    /\ pixeltoTriangle = <<>>
    /\ triangleCount = 0
    /\ aggregateFunc = "mean"
    /\ triangleColors = None

\* Grid.__init__ and BlueNoiseGenerator.__init__, lines 100-110
Constructed ==
    /\ GridInit
    /\ inserted = <<>>
    /\ sampledList = <<>>
    /\ processingList = <<>>
    /\ pQueue = EmptyBag
    /\ randomPoint = None
    /\ i = 0
    /\ upperWidth = 0
    /\ lowerWidth = 0
    /\ leftHeight = 0
    /\ rightHeight = 0

InitSampler(widths, heights, dists, targets, counts, variants) ==
    /\ imageWidth \in widths
    /\ imageHeight \in heights
    /\ minDist \in dists
    /\ pointCount \in targets
    /\ newPointsToGenerate \in counts
    /\ variant \in variants
    /\ imageWeight \in IF variant = "generateWeighted"
                       THEN Surfaces(imageWidth, imageHeight)
                       ELSE {None}
    /\ uniformSteps = 1
    /\ Constructed
    /\ pc = "start"
    /\ IdleGridCaller
    /\ IdleColors

NextGenerate ==
    \/ generateStart
    \/ generatePop
    \/ generateCandidate
    \/ generateExit
    \/ generateBoundaryStep
    \/ generateBoundaryReturn

Next ==
    \/ generateStart
    \/ generatePop
    \/ generateCandidate
    \/ generateExit
    \/ generateWeightedStart
    \/ generateWeightedPop
    \/ generateWeightedCandidate
    \/ generateWeightedDrain
    \/ generateWeightedDrained
    \/ generateWeightedExit
    \/ generateBoundaryStep
    \/ generateBoundaryReturn

\* the sampling loops alone, up to the call of generateBoundary
NextSampling ==
    \/ generateStart
    \/ generatePop
    \/ generateCandidate
    \/ generateExit
    \/ generateWeightedStart
    \/ generateWeightedPop
    \/ generateWeightedCandidate
    \/ generateWeightedDrain
    \/ generateWeightedDrained
    \/ generateWeightedExit

\* whole runs of both variants: every target and candidate count on the
\* smallest images, and the largest ones on images with room for an accepted
\* candidate (a side of 2 * minDist + 2 leaves one column inside the margin)
Init ==
    \/ InitSampler(1 .. 2, 1 .. 2, 1 .. MaxDist, -1 .. MaxTarget,
                   0 .. MaxCandidates, {"generate", "generateWeighted"})
    \/ InitSampler(5 .. 6, 5 .. 6, {2}, {MaxTarget}, {MaxCandidates},
                   {"generate", "generateWeighted"})

Spec == Init /\ [][Next]_vars

\* the interpreter runs the called entry point to its return
FairSpec == Spec /\ WF_vars(Next)

\* the sampling loops of both variants where the grid has five columns and
\* rows (minDist 5, sides 12 and 13) and up
InitSampling ==
    InitSampler(12 .. 13, 12 .. 13, {5}, 2 .. MaxTarget, 1 .. MaxCandidates,
                {"generate", "generateWeighted"})

SpecSampling == InitSampling /\ [][NextSampling]_vars

\* the scenario of a 10 x 10 image, minDist 3 and a target of 5
InitExample ==
    InitSampler({10}, {10}, {3}, {5}, {MaxCandidates}, {"generate"})

SpecExample == InitExample /\ [][NextGenerate]_vars

\* the sampling loops of both variants on an image whose inside of the margin
\* is three columns wide (6 x 4, minDist 1: x in 2 .. 4, y = 2), with room
\* for accepted points 2 * minDist apart
InitWide ==
    InitSampler({6}, {4}, {1}, {MaxTarget, MaxTarget + 1}, {MaxCandidates},
                {"generate", "generateWeighted"})

SpecWide == InitWide /\ [][NextSampling]_vars

\* the sampling loop of generateWeighted on that image, with a target that
\* lets a second outer iteration run
InitWeighted ==
    InitSampler({6}, {4}, {1}, {MaxTarget + 1}, {MaxCandidates},
                {"generateWeighted"})

NextWeighted ==
    \/ generateWeightedStart
    \/ generateWeightedPop
    \/ generateWeightedCandidate
    \/ generateWeightedDrain
    \/ generateWeightedDrained
    \/ generateWeightedExit

SpecWeighted == InitWeighted /\ [][NextWeighted]_vars

\* whole runs of both variants on a grid built with a negative minDist, next
\* to the runs on grids built with a positive one
InitInvalid ==
    \/ Init
    \/ InitSampler(1 .. 2, 1 .. 2, -MaxDist .. -1, 0 .. MaxTarget,
                   0 .. MaxCandidates, {"generate", "generateWeighted"})

NextInvalid ==
    \/ Next
    \/ generateStartRaises
    \/ generateWeightedStartRaises

SpecInvalid == InitInvalid /\ [][NextInvalid]_vars

(***************************************************************************)
(* generateBoundary called on a freshly constructed generator              *)
(***************************************************************************)
InitBoundary ==
    /\ minDist \in 1 .. MaxDist
    /\ imageWidth \in 1 .. 3 * minDist
    /\ imageHeight \in 1 .. 3 * minDist
    /\ pointCount = 0
    /\ newPointsToGenerate = 0
    /\ variant = "generateBoundary"
    /\ imageWeight = None
    /\ uniformSteps \in 1 .. MaxUniformSteps
    /\ Constructed
    /\ pc = "boundary"
    /\ IdleGridCaller
    /\ IdleColors

NextBoundary ==
    \/ generateBoundaryStep
    \/ generateBoundaryReturn

SpecBoundary == InitBoundary /\ [][NextBoundary]_vars

(***************************************************************************)
(* A Grid and its caller: insert, checkInNeighborhood and reset called in  *)
(* any order with points of the image.                                     *)
(***************************************************************************)
ImagePoints ==
    {Point(x, y, 0) : x \in 0 .. imageWidth - 1, y \in 0 .. imageHeight - 1}

SeqToSet(s) == {s[k] : k \in 1 .. Len(s)}

gridInsert ==
    /\ pc = "grid"
    /\ Len(inserted) + Cardinality(cleared) < MaxInserts
    /\ \E point \in ImagePoints :
          /\ grid' = insert(grid, point)
          /\ inserted' = Append(inserted, point)
    /\ query' = None
    /\ result' = FALSE
    /\ UNCHANGED <<paramVars, sampledList, processingList, pQueue,
                   randomPoint, i, cursorVars, pc, cleared, colorVars>>

\* one call per grid state: a further call from the same grid returns what a
\* first call with that point returns
gridCheckInNeighborhood ==
    /\ pc = "grid"
    /\ query = None
    /\ \E point \in ImagePoints :
          /\ query' = point
          /\ result' = checkInNeighborhood(grid, point)
    /\ UNCHANGED <<paramVars, grid, sampledList, processingList, pQueue,
                   randomPoint, i, cursorVars, pc, inserted, cleared,
                   colorVars>>

gridReset ==
    /\ pc = "grid"
    /\ grid' = reset(grid)
    /\ cleared' = cleared \cup SeqToSet(inserted)
    /\ inserted' = <<>>
    /\ query' = None
    /\ result' = FALSE
    /\ UNCHANGED <<paramVars, sampledList, processingList, pQueue,
                   randomPoint, i, cursorVars, pc, colorVars>>

InitGridOf(widths, heights, dists) ==
    /\ imageWidth \in widths
    /\ imageHeight \in heights
    /\ minDist \in dists
    /\ pointCount = 0
    /\ newPointsToGenerate = 0
    /\ variant = "Grid"
    /\ imageWeight = None
    /\ uniformSteps = 1
    /\ Constructed
    /\ pc = "grid"
    /\ result = FALSE
    /\ query = None
    /\ cleared = {}
    /\ IdleColors

NextGrid ==
    \/ gridInsert
    \/ gridCheckInNeighborhood
    \/ gridReset

\* grids of small images
InitGrid == InitGridOf(1 .. 3, 1 .. 3, 1 .. MaxDist)

SpecGrid == InitGrid /\ [][NextGrid]_vars

\* a grid two cells wide and four high (minDist 5 on a 4 x 12 image)
InitGridTall == InitGridOf({4}, {12}, {5})

SpecGridTall == InitGridTall /\ [][NextGrid]_vars

\* the points a lookup is made with: those of the image and those up to
\* minDist outside of it
QueryPoints ==
    {Point(x, y, 0) : x \in -minDist .. imageWidth + minDist,
                      y \in -minDist .. imageHeight + minDist}

gridCheckAnywhere ==
    /\ pc = "grid"
    /\ query = None
    /\ \E point \in QueryPoints :
          /\ query' = point
          /\ result' = checkInNeighborhood(grid, point)
    /\ UNCHANGED <<paramVars, grid, sampledList, processingList, pQueue,
                   randomPoint, i, cursorVars, pc, inserted, cleared,
                   colorVars>>

NextGridAnywhere ==
    \/ gridInsert
    \/ gridCheckAnywhere
    \/ gridReset

\* a grid three cells wide and two high (minDist 3 on a 5 x 3 image): the
\* window of four columns is wider than the grid
InitGridNarrow == InitGridOf({5}, {3}, {3})

SpecGridNarrow == InitGridNarrow /\ [][NextGridAnywhere]_vars

(***************************************************************************)
(* calculateTriColors                                                      *)
(***************************************************************************)
\* a number as a fraction <<numerator, denominator>>
Frac(n, d) == <<n, d>>
FracEq(a, b) == a[1] * b[2] = b[1] * a[2]

RECURSIVE SumSeq(_)
SumSeq(s) == IF s = <<>> THEN 0 ELSE Head(s) + SumSeq(Tail(s))

RECURSIVE InsertSorted(_, _)
InsertSorted(v, s) ==
    IF s = <<>> THEN <<v>>
    ELSE IF v <= Head(s) THEN <<v>> \o s
    ELSE <<Head(s)>> \o InsertSorted(v, Tail(s))

RECURSIVE Sorted(_)
Sorted(s) == IF s = <<>> THEN <<>> ELSE InsertSorted(Head(s), Sorted(Tail(s)))

\* the mean in the integer arithmetic of the pixels' dtype
MeanFloor(s) == Frac(SumSeq(s) \div Len(s), 1)

\* np.mean of a non-empty column
Mean(s) == Frac(SumSeq(s), Len(s))

\* np.median of a non-empty column: the middle value, or the mean of the two
Median(s) ==
    LET n == Len(s)
        o == Sorted(s)
    IN  IF n % 2 = 1 THEN Frac(o[(n + 1) \div 2], 1)
        ELSE Frac(o[n \div 2] + o[n \div 2 + 1], 2)

Aggregate(func, s) == IF func = "mean" THEN Mean(s) ELSE Median(s)

\* the column `channel` of the rows of df whose "triangle" is t, lines 233-238
RECURSIVE Column(_, _, _, _)
Column(img, locator, t, channel) ==
    IF img = <<>> THEN <<>>
    ELSE (IF Head(locator) = t THEN <<Head(img)[channel]>> ELSE <<>>)
         \o Column(Tail(img), Tail(locator), t, channel)

GroupRows(img, locator, func) ==
    [t \in {locator[k] : k \in 1 .. Len(locator)} |->
        [channel \in 1 .. 3 |-> Aggregate(func, Column(img, locator, t, channel))]]

\* the grouping with -1 clipped to simplex 0
GroupByClip(img, locator, func) ==
    GroupRows(img, [k \in 1 .. Len(locator) |-> Max(locator[k], 0)], func)

\* df.groupby("triangle")[["r", "g", "b"]].aggregate(aggregateFunc): one row
\* per value find_simplex returned, -1 among them
GroupBy(img, locator, func) == GroupRows(img, locator, func)

\* the frame as groupby left it
ReindexNone(df, count) == df

\* .reindex(range(triangleCount), fill_value=0)
Reindex(df, count) ==
    [t \in 0 .. count - 1 |->
        IF t \in DOMAIN df THEN df[t] ELSE [channel \in 1 .. 3 |-> Frac(0, 1)]]

\* the row-th label of an index, in ascending order
LabelAt(labels, row) ==
    CHOOSE t \in labels : Cardinality({u \in labels : u < t}) = row - 1

\* triangleColors.values / 256: the rows of the frame in index order (row
\* t + 1 is simplex t after the reindex), each value divided by 256
Values256(df) ==
    [row \in 1 .. Cardinality(DOMAIN df) |->
        [channel \in 1 .. 3 |->
            LET v == df[LabelAt(DOMAIN df, row)][channel]
            IN  Frac(v[1], v[2] * 256)]]

TriColors(img, locator, count, func) ==
    Values256(Reindex(GroupBy(img, locator, func), count))

calculateTriColors ==
    /\ pc = "call"
    /\ triangleColors' = TriColors(image, pixeltoTriangle, triangleCount,
                                   aggregateFunc)
    /\ pc' = "returned"
    /\ UNCHANGED <<paramVars, grid, sampledList, processingList, pQueue,
                   randomPoint, i, cursorVars, gridOpVars, image,
                   pixeltoTriangle, triangleCount, aggregateFunc>>

\* the pixel colours the images are made of
Palette == {<<0, 0, 0>>, <<255, 128, 7>>, <<10, 20, 30>>, <<9, 128, 200>>}

\* an image of one row, any triangulation and any answer of find_simplex
InitColors ==
    /\ imageWidth \in 1 .. MaxPixels
    /\ imageHeight = 1
    /\ image \in [1 .. imageWidth * imageHeight -> Palette]
    /\ triangleCount \in 1 .. MaxTriangles
    /\ pixeltoTriangle \in
          [1 .. imageWidth * imageHeight -> -1 .. triangleCount - 1]
    /\ aggregateFunc \in {"mean", "median"}
    /\ triangleColors = None
    /\ minDist = 1
    /\ pointCount = 0
    /\ newPointsToGenerate = 0
    /\ variant = "calculateTriColors"
    /\ imageWeight = None
    /\ uniformSteps = 1
    /\ Constructed
    /\ pc = "call"
    /\ IdleGridCaller

NextColors == calculateTriColors

SpecColors == InitColors /\ [][NextColors]_vars

(***************************************************************************)
(* Properties                                                              *)
(***************************************************************************)
\* the entries of sampledList that are no boundary points: the seed and the
\* accepted candidates, each appended together with its Grid.insert
NonBoundary == SubSeq(sampledList, 1, Len(inserted))

\* squared distance of two entries of sampledList, in fixed point
ListDistSq(a, b) ==
    (a[1] - b[1]) * (a[1] - b[1]) + (a[2] - b[2]) * (a[2] - b[2])

\* any two entries of the list are at distance >= minDist
Separated(list) ==
    \A j, k \in 1 .. Len(list) :
        j < k => ListDistSq(list[j], list[k]) >= minDist * minDist * FP * FP

\* C1 (minimum separation): in every reachable state of a run of either
\* sampler variant started on an empty grid, any two distinct non-boundary
\* entries of sampledList are at Euclidean distance >= minDist.
C1_MinimumSeparation == Separated(NonBoundary)

\* C2 (grid correctness): after inserting a set S of in-image points, pairwise
\* >= minDist apart, into a freshly reset grid, checkInNeighborhood(q) returns
\* true if and only if some point of S is at distance < minDist of q.
C2_GridCorrectness ==
    (/\ query # None
     /\ \A j, k \in 1 .. Len(inserted) :
           j < k => distanceSq(inserted[j], inserted[k]) >= minDist * minDist)
    => (result <=> \E k \in 1 .. Len(inserted) :
                      distanceSq(inserted[k], query) < minDist * minDist)

\* C3 (termination): both sampler variants, the trailing generateBoundary
\* walk included, reach their return statement after finitely many steps,
\* for every resolution of the random choices.
C3_Termination == <>(pc = "done")

\* a run that accepted a candidate and walked the boundary twice has returned
C3_Witness ==
    /\ pc = "done"
    /\ Len(inserted) >= 2
    /\ Len(sampledList) >= Len(inserted) + 4 * 2 + 2

\* a step of the sampling loop leaves it if and only if it is the loop's test
\* and finds processingList empty or `target` entries in sampledList
StopsAtTest(target) ==
    pc \in {"loop", "for"} =>
        (pc' = "boundary" <=>
            (pc = "loop"
               /\ (Len(processingList) = 0 \/ Len(sampledList) >= target)))

\* C4 (example scenario): on a 10 x 10 image with minDist 3 and target 5,
\* every run of generate returns a non-empty list in which no two
\* non-boundary points are closer than 3, and the sampling loop stops, at its
\* test, exactly when processingList is empty or sampledList has 5 points.
C4_ExampleScenario ==
    /\ [](pc = "done" => Len(sampledList) > 0 /\ Separated(NonBoundary))
    /\ [][StopsAtTest(5)]_vars

\* a run of the scenario that accepted a candidate has returned
C4_Witness ==
    /\ pc = "done"
    /\ imageWidth = 10 /\ imageHeight = 10 /\ minDist = 3 /\ pointCount = 5
    /\ Len(inserted) = 2
    /\ processingList = <<>>

\* the cursor of edge e (1 upper, 2 lower, 3 left, 4 right) in the point the
\* walk emitted in its round r
EmittedCursor(e, r) ==
    LET point == sampledList[Len(inserted) + 4 * (r - 1) + e]
    IN  IF e \in {1, 2} THEN point[1] ELSE point[2]

\* the rounds of the walk so far (the two corners make no round)
Rounds == (Len(sampledList) - Len(inserted)) \div 4

\* the image dimension edge e runs along, in fixed point
EdgeLength(e) == IF e \in {1, 2} THEN imageWidth * FP ELSE imageHeight * FP

\* C5 (boundary monotonicity): for each of the four edges the cursors of
\* successively emitted points are strictly increasing, and every emitted
\* (non-corner) boundary point has its cursor strictly below the image
\* dimension of its edge.
C5_BoundaryMonotonicity ==
    \A e \in 1 .. 4 :
        /\ \A r \in 1 .. Rounds : EmittedCursor(e, r) < EdgeLength(e)
        /\ \A r \in 1 .. Rounds - 1 : EmittedCursor(e, r) < EmittedCursor(e, r + 1)

\* a walk of three rounds on an image wider than high
C5_Witness ==
    /\ variant = "generateBoundary"
    /\ Rounds >= 3
    /\ imageWidth > imageHeight

\* C6 (reset): after Grid.reset(), until a new insert, checkInNeighborhood(p)
\* returns false for every point p inserted before the reset; reset leaves
\* every cell empty and keeps the number of cells.
C6_Reset ==
    /\ GridLen(grid) = width * height
    /\ inserted = <<>> =>
          /\ \A c \in DOMAIN grid : grid[c] = None
          /\ \A p \in cleared : ~checkInNeighborhood(grid, p)
          /\ query # None => result = FALSE

\* a point inserted before the reset is looked up after it
C6_Witness ==
    /\ variant = "Grid"
    /\ inserted = <<>>
    /\ query \in cleared

\* the pixels find_simplex puts in simplex t
PixelsOf(t) == {k \in 1 .. Len(image) : pixeltoTriangle[k] = t}

\* C7 (aggregation completeness): the output of calculateTriColors has
\* exactly one colour entry for each simplex index in [0, triangleCount) and
\* no other entry; a simplex that covers no pixel gets the zero fill value.
C7_AggregationCompleteness ==
    pc = "returned" =>
        /\ DOMAIN triangleColors = 1 .. triangleCount
        /\ \A t \in 0 .. triangleCount - 1 :
              PixelsOf(t) = {} =>
                 \A channel \in 1 .. 3 : triangleColors[t + 1][channel][1] = 0

\* a call with a simplex that covers no pixel and a pixel outside the hull
C7_Witness ==
    /\ pc = "returned"
    /\ PixelsOf(-1) # {}
    /\ \E t \in 0 .. triangleCount - 1 : PixelsOf(t) = {}
    /\ \E t \in 0 .. triangleCount - 1 : PixelsOf(t) # {}

\* the sum of a channel over a set of pixels
RECURSIVE ChannelSum(_, _)
ChannelSum(pixels, channel) ==
    IF pixels = {} THEN 0
    ELSE LET k == CHOOSE k \in pixels : TRUE
         IN  image[k][channel] + ChannelSum(pixels \ {k}, channel)

\* the value of rank `rank` (1 the least) of a channel over a set of pixels:
\* fewer than `rank` pixels are below it, and at least `rank` are not above
RankedValue(pixels, channel, rank) ==
    CHOOSE v \in {image[k][channel] : k \in pixels} :
        /\ Cardinality({k \in pixels : image[k][channel] < v}) < rank
        /\ Cardinality({k \in pixels : image[k][channel] <= v}) >= rank

\* the mean or the median of a channel over a non-empty set of pixels
ExpectedAggregate(pixels, channel) ==
    LET n == Cardinality(pixels) IN
    IF aggregateFunc = "mean" THEN Frac(ChannelSum(pixels, channel), n)
    ELSE IF n % 2 = 1 THEN Frac(RankedValue(pixels, channel, (n + 1) \div 2), 1)
    ELSE Frac(RankedValue(pixels, channel, n \div 2)
                + RankedValue(pixels, channel, n \div 2 + 1), 2)

\* the triangulation is one simplex and find_simplex puts every pixel in it
OneSimplex ==
    /\ triangleCount = 1
    /\ PixelsOf(0) = 1 .. Len(image)

\* C8 as claimed (aggregation correctness): with a single simplex that holds
\* every pixel, the colour calculateTriColors returns for it equals, per
\* channel, the mean (the median) of all pixel values of the image.
C8_ReturnsAggregate ==
    (pc = "returned" /\ OneSimplex) =>
        \A channel \in 1 .. 3 :
            FracEq(triangleColors[1][channel],
                   ExpectedAggregate(1 .. Len(image), channel))

\* C8 as amended: the returned colour equals, per channel, the mean (the
\* median) of all pixel values of the image divided by 256.
C8_ReturnsAggregateOver256 ==
    (pc = "returned" /\ OneSimplex) =>
        \A channel \in 1 .. 3 :
            LET expected == ExpectedAggregate(1 .. Len(image), channel)
            IN  FracEq(triangleColors[1][channel],
                       Frac(expected[1], expected[2] * 256))

\* a single simplex over three pixels of different colours, mean aggregate
C8_Witness ==
    /\ pc = "returned"
    /\ OneSimplex
    /\ aggregateFunc = "mean"
    /\ Len(image) = 3
    /\ image[1] # image[2] /\ image[2] # image[3] /\ image[1] # image[3]

\* C9 (outside-hull pixels): a pixel for which find_simplex returns -1
\* contributes to the aggregate of no simplex, and every other pixel to the
\* aggregate of exactly the simplex returned for it: the colour of a simplex
\* is the aggregate (over 256) of the pixels located in it and of no other.
C9_OutsideHullExcluded ==
    pc = "returned" =>
        \A t \in 0 .. triangleCount - 1 : \A channel \in 1 .. 3 :
            PixelsOf(t) # {} =>
                LET expected == ExpectedAggregate(PixelsOf(t), channel)
                IN  FracEq(triangleColors[t + 1][channel],
                           Frac(expected[1], expected[2] * 256))

\* a call with a pixel outside the hull and a pixel inside every simplex
C9_Witness ==
    /\ pc = "returned"
    /\ PixelsOf(-1) # {}
    /\ \E k \in PixelsOf(-1) : image[k] # <<0, 0, 0>>
    /\ \A t \in 0 .. triangleCount - 1 : PixelsOf(t) # {}

\* the boundary points as generateBoundary appends them after the first
\* `first` entries: rounds of four points on the four edges, then the corners
BoundaryTail(first) ==
    LET n == Len(sampledList) - first - 2 IN
    /\ n >= 4
    /\ n % 4 = 0
    /\ \A r \in 0 .. n \div 4 - 1 :
          /\ sampledList[first + 4 * r + 1][2] = 0
          /\ sampledList[first + 4 * r + 2][2] = (imageHeight - 1) * FP
          /\ sampledList[first + 4 * r + 3][1] = 0
          /\ sampledList[first + 4 * r + 4][1] = (imageWidth - 1) * FP
    /\ SubSeq(sampledList, Len(sampledList) - 1, Len(sampledList)) = Corners

\* C10 (zero or negative target): when pointCount <= 0, either variant
\* performs no sampling iteration (nothing is popped from processingList, no
\* candidate is generated or accepted) and returns exactly the seed point
\* followed by the boundary points.
C10_NoSamplingRequested ==
    pointCount <= 0 =>
        /\ pc \notin {"for", "drain"}
        /\ randomPoint = None
        /\ pQueue = EmptyBag
        /\ pc # "start" =>
              /\ Len(processingList) = 1
              /\ inserted = processingList
              /\ sampledList[1] = ToList(processingList[1])
        /\ pc = "done" => BoundaryTail(1)

\* a run of generateWeighted with a negative target has returned
C10_Witness ==
    /\ pc = "done"
    /\ pointCount < 0
    /\ variant = "generateWeighted"

\* C11 (fatal preconditions): when minDist is negative, generate and
\* generateWeighted signal the failure before any sampling work: sampledList,
\* processingList and the grid are as the constructors left them when the
\* exception is raised.
C11_FatalBeforeWork ==
    pc = "raised" =>
        /\ sampledList = <<>>
        /\ processingList = <<>>
        /\ grid = Nones(GridLen(grid))

\* C12 (seed inside the image): in both variants the seed, the first entry of
\* sampledList and the first point given to the grid and to processingList,
\* has 0 <= x < imageWidth and 0 <= y < imageHeight.
C12_SeedInsideImage ==
    pc \in {"loop", "for", "drain", "boundary", "done"} =>
        /\ sampledList[1] = ToList(inserted[1])
        /\ inserted[1].x \in 0 .. imageWidth - 1
        /\ inserted[1].y \in 0 .. imageHeight - 1

\* a step of the drain loop of generateWeighted that pops a candidate
DrainPops == variant = "generateWeighted" /\ pc = "drain" /\ pQueue' # pQueue

\* the importance of the image at a point
Importance(p) == imageWeight[<<p.x, p.y>>]

\* the popped candidate p leads the queue: its priority is the negated
\* importance at its coordinates and no queued candidate has a lower one; it
\* is accepted, ending the drain, if and only if the grid reports no
\* neighbour, and then no candidate left in the queue is more important
PopsInOrder(p) ==
    /\ pQueue' = pQueue (-) SetToBag({p})
    /\ p.priority = -Importance(p)
    /\ \A q \in BagToSet(pQueue) : p.priority <= q.priority
    /\ IF checkInNeighborhood(grid, p)
       THEN /\ sampledList' = sampledList
            /\ processingList' = processingList
            /\ grid' = grid
            /\ pc' = "drain"
       ELSE /\ sampledList' = Append(sampledList, ToList(p))
            /\ processingList' = Append(processingList, p)
            /\ grid' = insert(grid, p)
            /\ pc' = "loop"
            /\ \A q \in BagToSet(pQueue') : Importance(q) <= Importance(p)

\* C13 (weighted acceptance order): in each drain phase of generateWeighted
\* the candidates are popped in ascending stored priority (the negated
\* importance at the candidate's coordinates), the accepted point is the
\* first popped one for which the grid reports no neighbour, and so no
\* candidate of strictly higher importance is left in the queue at the
\* acceptance: each such candidate was popped before and rejected.
C13_WeightedOrder ==
    [][DrainPops => \E p \in BagToSet(pQueue) : PopsInOrder(p)]_vars

\* a drain accepted a candidate and left a less important one in the queue
C13_Witness ==
    /\ variant = "generateWeighted"
    /\ pc = "loop"
    /\ Len(inserted) >= 2
    /\ \E q \in BagToSet(pQueue) :
          Importance(q) < Importance(inserted[Len(inserted)])

\* the cells in which two grids differ
ChangedCells(g, h) == {c \in DOMAIN g : g[c] # h[c]}

\* a step of an outer iteration of generateWeighted: the while test and the
\* pop accept nothing, the for loop accepts nothing, and a step of the drain
\* that accepts adds one point to sampledList, processingList and the grid
\* and goes back to the while test
OneAcceptance ==
    variant = "generateWeighted" =>
        /\ pc \in {"loop", "for"} =>
              /\ sampledList' = sampledList
              /\ grid' = grid
              /\ Len(processingList') <= Len(processingList)
        /\ pc = "drain" =>
              \/ /\ sampledList' = sampledList
                 /\ processingList' = processingList
                 /\ grid' = grid
              \/ /\ Len(sampledList') = Len(sampledList) + 1
                 /\ Len(processingList') = Len(processingList) + 1
                 /\ Cardinality(ChangedCells(grid, grid')) = 1
                 /\ pc' = "loop"

\* C14 (one acceptance per outer iteration): between two consecutive pops
\* from processingList in generateWeighted, sampledList, processingList and
\* the grid each grow by at most one point, and the drain stops immediately
\* after that acceptance.
C14_OneAcceptancePerIteration == [][OneAcceptance]_vars

\* a drain stopped at its acceptance although a candidate it would also have
\* accepted is still queued
C14_Witness ==
    /\ variant = "generateWeighted"
    /\ pc = "loop"
    /\ Len(inserted) >= 2
    /\ i = newPointsToGenerate
    /\ \E q \in BagToSet(pQueue) : ~checkInNeighborhood(grid, q)

\* what a step of generateWeighted does to the queue: the while test and the
\* pop from processingList leave it alone, the for loop only adds to it, and
\* a step of the drain removes the one candidate it pops
QueueKept ==
    variant = "generateWeighted" =>
        /\ pc = "loop" => pQueue' = pQueue
        /\ pc = "for" => pQueue \sqsubseteq pQueue'
        /\ pc = "drain" =>
              \/ pQueue' = pQueue
              \/ \E p \in BagToSet(pQueue) :
                    /\ pQueue' = pQueue (-) SetToBag({p})
                    /\ BagCardinality(pQueue') = BagCardinality(pQueue) - 1

\* C15 (candidate queue persistence): the queue of generateWeighted is never
\* cleared between outer iterations; after a drain phase it holds exactly
\* the candidates that were queued and not popped in that phase, so a
\* candidate generated around an earlier parent can be accepted in a later
\* iteration.
C15_QueuePersistence == [][QueueKept]_vars

\* the third point was accepted in an iteration whose parent it cannot have
\* been generated around
C15_Witness ==
    /\ variant = "generateWeighted"
    /\ pc = "loop"
    /\ Len(inserted) = 3
    /\ Point(inserted[3].x, inserted[3].y, 0)
          \notin generateRandomPointAround(randomPoint, minDist)

\* C16 (target count): in both variants no candidate is accepted once
\* sampledList has reached the target count, so when the sampling loop ends
\* the number of non-boundary points in sampledList is at most
\* max(1, pointCount).
C16_TargetRespected ==
    pc = "boundary" => Len(inserted) <= Max(1, pointCount)

\* C17 (edge margin): in both variants every accepted point other than the
\* seed and the boundary points has minDist < x < imageWidth - minDist and
\* minDist < y < imageHeight - minDist; on an image with width or height
\* <= 2 * minDist no candidate is ever accepted and the result is the seed
\* followed by the boundary points.
C17_EdgeMargin ==
    /\ \A k \in 2 .. Len(inserted) :
          /\ minDist < inserted[k].x /\ inserted[k].x < imageWidth - minDist
          /\ minDist < inserted[k].y /\ inserted[k].y < imageHeight - minDist
    /\ (imageWidth <= 2 * minDist \/ imageHeight <= 2 * minDist) =>
          /\ Len(inserted) <= 1
          /\ pc = "done" =>
                /\ sampledList[1] = ToList(inserted[1])
                /\ BoundaryTail(1)

\* a run that accepted the one point inside the margin of a 6 x 6 image
C17_Witness ==
    /\ pc = "done"
    /\ imageWidth = 6 /\ imageHeight = 6 /\ minDist = 2
    /\ Len(inserted) = 2
    /\ inserted[2].x = 3 /\ inserted[2].y = 3

\* a step of generateBoundary keeps the grid, processingList and the entries
\* sampledList has, and its last step leaves the two corners at the end
BoundaryFrame ==
    pc = "boundary" =>
        /\ grid' = grid
        /\ processingList' = processingList
        /\ Len(sampledList') >= Len(sampledList)
        /\ SubSeq(sampledList', 1, Len(sampledList)) = sampledList
        /\ pc' = "done" =>
              /\ Len(sampledList') = Len(sampledList) + 2
              /\ sampledList'[Len(sampledList') - 1]
                    = <<(imageWidth - 1) * FP, 0>>
              /\ sampledList'[Len(sampledList')]
                    = <<(imageWidth - 1) * FP, (imageHeight - 1) * FP>>

\* C18 (boundary seeding frame): generateBoundary only appends to
\* sampledList; it leaves the grid, processingList and all previously
\* appended entries of sampledList, in their order, unchanged, and the last
\* two entries it appends are (imageWidth - 1, 0) and
\* (imageWidth - 1, imageHeight - 1).
C18_BoundaryFrame == [][BoundaryFrame]_vars

\* generateBoundary returned after sampling left two points in sampledList,
\* one of them still in processingList, on an image wider than one pixel
C18_Witness ==
    /\ pc = "done"
    /\ imageWidth > 1
    /\ Len(inserted) = 2
    /\ Len(processingList) = 1
    /\ Len(sampledList) >= 2 + 4 + 2

\* C19 (single occupancy): during a run of either variant started on an
\* empty grid, Grid.insert never writes to an occupied cell: no two accepted
\* points map to the same grid index, and every accepted non-boundary point
\* is still stored in the grid.
C19_SingleOccupancy ==
    \A j, k \in 1 .. Len(inserted) :
        /\ j # k => getGridIndex(inserted[j]) # getGridIndex(inserted[k])
        /\ getGridIndex(inserted[k]) \in DOMAIN grid
        /\ grid[getGridIndex(inserted[k])] = inserted[k]

\* a candidate was accepted next to a seed two cells away from it
C19_Witness ==
    /\ pc \in {"loop", "boundary", "done"}
    /\ Len(inserted) = 2
    /\ getGridCoordinates(inserted[1]).x = getGridCoordinates(inserted[2]).x + 2
    /\ getGridCoordinates(inserted[1]).y = getGridCoordinates(inserted[2]).y

\* the points stored in the grid
Stored == {grid[c] : c \in {d \in DOMAIN grid : grid[d] # None}}

\* a step that is a lookup leaves the grid as it is
LookupKeepsGrid == (query = None /\ query' # None) => grid' = grid

\* C20 (no false rejection): for every grid state and every query point q,
\* also where the window reaches negative or out-of-range grid columns or
\* rows and the flat index y * width + x wraps into another row,
\* checkInNeighborhood(q) returns true only if a point stored in the grid
\* is at distance < minDist of q; the call does not modify the grid.
C20_NoFalseRejection ==
    /\ []((query # None /\ result) =>
             \E p \in Stored : distanceSq(p, query) < minDist * minDist)
    /\ [][LookupKeepsGrid]_vars

\* a lookup from left of the image, its window reaching negative columns,
\* found a stored point
C20_Witness ==
    /\ variant = "Grid"
    /\ query # None
    /\ query.x < 0
    /\ result

====
